---------------------------- MODULE Spec2Model ----------------------------
(***************************************************************************)
(* A model of the simple-uuid crate: the Layout field model and its byte   *)
(* serialisation, the version constructors v1..v5, the hex formatting and  *)
(* the is_valid grammar check, Timestamp::new and ClockSeq::new.           *)
(*                                                                         *)
(* Number representation.  TLC's integers are 32 bits wide, so the u32,    *)
(* u64 and u128 values of the program are little-endian sequences of       *)
(* base-256 limbs (limb 1 is the least significant byte); u8 and u16       *)
(* values are plain naturals.  Text is a sequence of ASCII codes.          *)
(***************************************************************************)
EXTENDS Integers, Sequences, FiniteSets, TLC

VARIABLES
    layout,     \* the Layout last built by a constructor (or NoLayout)
    made,       \* which constructor built it, and from which inputs
    bytes,      \* the UUID value last returned by Layout::as_bytes
    threads,    \* ClockSeq::new callers: position, argument, local atomic
    rets,       \* values returned by ClockSeq::new, in completion order
    log,        \* the name-based calls made so far: inputs and output bytes
    rng,        \* the last draw of the random source
    text,       \* the text handed to is_valid
    origin,     \* how that text was produced
    valid,      \* what is_valid answered for it
    reading,    \* the system clock reading handed to Timestamp::new
    stamp,      \* what Timestamp::new did with it
    got         \* what each accessor of the Layout returned, once called

vars == <<layout, made, bytes, threads, rets, log, rng, text, origin, valid,
          reading, stamp, got>>

-----------------------------------------------------------------------------
(* Bit operations on naturals (u8 and u16 values).                         *)

RECURSIVE BitAnd(_, _)
BitAnd(a, b) ==
    IF a = 0 \/ b = 0 THEN 0
    ELSE (a % 2) * (b % 2) + 2 * BitAnd(a \div 2, b \div 2)

RECURSIVE BitOr(_, _)
BitOr(a, b) ==
    IF a = 0 THEN b
    ELSE IF b = 0 THEN a
    ELSE (IF a % 2 = 1 \/ b % 2 = 1 THEN 1 ELSE 0)
         + 2 * BitOr(a \div 2, b \div 2)

RECURSIVE Pow2(_)
Pow2(k) == IF k = 0 THEN 1 ELSE 2 * Pow2(k - 1)

\* x << k in a w-bit unsigned integer (bits shifted out are lost).
Shl(x, k, w) == (x * Pow2(k)) % Pow2(w)

\* x >> k.
Shr(x, k) == x \div Pow2(k)

Byte == 0 .. 255

-----------------------------------------------------------------------------
(* Wide unsigned integers: little-endian sequences of base-256 limbs.      *)

\* The n-limb value of a natural below 2^31.
RECURSIVE WFromNat(_, _)
WFromNat(x, n) ==
    IF n = 0 THEN <<>> ELSE <<x % 256>> \o WFromNat(x \div 256, n - 1)

\* `x as uN`: truncation or zero extension to n limbs.
WCast(x, n) == [i \in 1 .. n |-> IF i <= Len(x) THEN x[i] ELSE 0]

WAnd(x, y) == [i \in 1 .. Len(x) |-> BitAnd(x[i], y[i])]

WOr(x, y) == [i \in 1 .. Len(x) |-> BitOr(x[i], y[i])]

\* x << (8 * k) within the width of x.
WShlBytes(x, k) == [i \in 1 .. Len(x) |-> IF i > k THEN x[i - k] ELSE 0]

\* x >> (8 * k) within the width of x.
WShrBytes(x, k) ==
    [i \in 1 .. Len(x) |-> IF i + k <= Len(x) THEN x[i + k] ELSE 0]

\* Limbs i..Len of x + y + carry, given as <<limbs, carry out>>.
RECURSIVE WAddFrom(_, _, _, _)
WAddFrom(x, y, i, c) ==
    IF i > Len(x) THEN <<<<>>, c>>
    ELSE LET s    == x[i] + y[i] + c
             rest == WAddFrom(x, y, i + 1, s \div 256)
         IN  <<<<s % 256>> \o rest[1], rest[2]>>

\* x + y of equal widths: the wrapped sum and whether it overflowed.
WAdd(x, y) ==
    LET r == WAddFrom(x, y, 1, 0)
    IN  [sum |-> r[1], overflow |-> r[2] # 0]

\* Limbs i..Len of x * m + carry (m small), wrapped to the width of x.
RECURSIVE WMulFrom(_, _, _, _)
WMulFrom(x, m, i, c) ==
    IF i > Len(x) THEN <<>>
    ELSE LET p == x[i] * m + c
         IN  <<p % 256>> \o WMulFrom(x, m, i + 1, p \div 256)

WMulSmall(x, m) == WMulFrom(x, m, 1, 0)

\* Limbs i..1 of x \div d, dividing from the most significant limb, with
\* the running remainder r; the result is <<quotient limbs, remainder>>.
RECURSIVE WDivFrom(_, _, _, _)
WDivFrom(x, d, i, r) ==
    IF i = 0 THEN <<<<>>, r>>
    ELSE LET cur  == r * 256 + x[i]
             rest == WDivFrom(x, d, i - 1, cur % d)
         IN  <<rest[1] \o <<cur \div d>>, rest[2]>>

WDivSmall(x, d) == WDivFrom(x, d, Len(x), 0)[1]

\* x <= y for equal widths.
RECURSIVE WLeqFrom(_, _, _)
WLeqFrom(x, y, i) ==
    IF i = 0 THEN TRUE
    ELSE IF x[i] < y[i] THEN TRUE
    ELSE IF x[i] > y[i] THEN FALSE
    ELSE WLeqFrom(x, y, i - 1)

WLeq(x, y) == WLeqFrom(x, y, Len(x))

\* The big-endian bytes of a wide value.
to_be_bytes(x) == [i \in 1 .. Len(x) |-> x[Len(x) + 1 - i]]

\* The big-endian bytes of a u16.
to_be_bytes16(x) == <<x \div 256, x % 256>>


\* The u16 held in the two low limbs of a wide value (`x as u16`).
WToU16(x) == x[1] + 256 * x[2]

\* Element k of a Rust array or slice (Rust indexes from 0).
At(s, k) == s[k + 1]

-----------------------------------------------------------------------------
(* lib.rs: enums, Layout and its accessors.                                *)

\* `Version::X as u16`.
VersionTag(v) ==
    CASE v = "TIME" -> 1
      [] v = "DCE"  -> 2
      [] v = "MD5"  -> 3
      [] v = "RAND" -> 4
      [] v = "SHA1" -> 5

\* `Variant::X as u8`.
VariantTag(v) ==
    CASE v = "NCS" -> 0
      [] v = "RFC" -> 1
      [] v = "MS"  -> 2
      [] v = "FUT" -> 3

\* `Domain::X as u8`.
DomainTag(d) ==
    CASE d = "PERSON" -> 0
      [] d = "GROUP"  -> 1
      [] d = "ORG"    -> 2

Domain == {"PERSON", "GROUP", "ORG"}

\* Option<T>.
Some(x) == <<x>>
None == <<>>

\* Layout { time_low, time_mid, time_high_and_version,
\*          clock_seq_high_and_reserved, clock_seq_low, node }.
Layout(tl, tm, thv, csh, csl, nd) ==
    [time_low |-> tl, time_mid |-> tm, time_high_and_version |-> thv,
     clock_seq_high_and_reserved |-> csh, clock_seq_low |-> csl, node |-> nd]

NoLayout == [none |-> TRUE]

\* Layout::as_bytes, in the order the array literal lists the bytes.
as_bytes_swapped_fields(self) ==
    <<At(to_be_bytes(self.time_low), 0),
      At(to_be_bytes(self.time_low), 1),
      At(to_be_bytes(self.time_low), 2),
      At(to_be_bytes(self.time_low), 3),
      At(to_be_bytes16(self.time_mid), 0),
      At(to_be_bytes16(self.time_mid), 1),
      At(to_be_bytes16(self.time_high_and_version), 0),
      At(to_be_bytes16(self.time_high_and_version), 1),
      self.clock_seq_low,
      self.clock_seq_high_and_reserved,
      At(self.node, 0), At(self.node, 1), At(self.node, 2),
      At(self.node, 3), At(self.node, 4), At(self.node, 5)>>

as_bytes(self) ==
    <<At(to_be_bytes(self.time_low), 0),
      At(to_be_bytes(self.time_low), 1),
      At(to_be_bytes(self.time_low), 2),
      At(to_be_bytes(self.time_low), 3),
      At(to_be_bytes16(self.time_mid), 0),
      At(to_be_bytes16(self.time_mid), 1),
      At(to_be_bytes16(self.time_high_and_version), 0),
      At(to_be_bytes16(self.time_high_and_version), 1),
      self.clock_seq_high_and_reserved,
      self.clock_seq_low,
      At(self.node, 0), At(self.node, 1), At(self.node, 2),
      At(self.node, 3), At(self.node, 4), At(self.node, 5)>>

\* Layout::get_version.
get_version_third_nibble(self) ==
    LET n == BitAnd(Shr(self.time_high_and_version, 8), 15)
    IN  CASE n = 1 -> Some("TIME")
          [] n = 2 -> Some("DCE")
          [] n = 3 -> Some("MD5")
          [] n = 4 -> Some("RAND")
          [] n = 5 -> Some("SHA1")
          [] OTHER -> None

get_version(self) ==
    LET n == BitAnd(Shr(self.time_high_and_version, 12), 15)
    IN  CASE n = 1 -> Some("TIME")
          [] n = 2 -> Some("DCE")
          [] n = 3 -> Some("MD5")
          [] n = 4 -> Some("RAND")
          [] n = 5 -> Some("SHA1")
          [] OTHER -> None

\* Layout::get_variant.
get_variant(self) ==
    LET n == BitAnd(Shr(self.clock_seq_high_and_reserved, 4), 15)
    IN  CASE n = 0 -> Some("NCS")
          [] n = 1 -> Some("RFC")
          [] n = 2 -> Some("MS")
          [] n = 3 -> Some("FUT")
          [] OTHER -> None

\* Layout::get_time: the Timestamp's u64.
get_time_unmasked(self) ==
    WOr(WOr(WShlBytes(WFromNat(self.time_high_and_version, 8), 6),
            WShlBytes(WFromNat(self.time_mid, 8), 4)),
        WCast(self.time_low, 8))

get_time(self) ==
    LET time == WOr(WOr(WShlBytes(WFromNat(BitAnd(self.time_high_and_version,
                                                  4095), 8), 6),
                        WShlBytes(WFromNat(self.time_mid, 8), 4)),
                    WCast(self.time_low, 8))
    IN  time

\* No accessor has been called on the Layout yet.
Uncalled == [called |-> FALSE]
Called(v) == [called |-> TRUE, value |-> v]
NotCalled ==
    [get_version |-> Uncalled, get_variant |-> Uncalled, get_time |-> Uncalled]

\* UUID::NAMESPACE_DNS, _OID, _URL, _X500: the 16 bytes of each.
NAMESPACE_DNS ==
    <<107, 167, 184, 16, 157, 173, 17, 209, 128, 180, 0, 192, 79, 212, 48, 200>>
NAMESPACE_OID ==
    <<107, 167, 184, 18, 157, 173, 17, 209, 128, 180, 0, 192, 79, 212, 48, 200>>
NAMESPACE_URL ==
    <<107, 167, 184, 17, 157, 173, 17, 209, 128, 180, 0, 192, 79, 212, 48, 200>>
NAMESPACE_X500 ==
    <<107, 167, 184, 20, 157, 173, 17, 209, 128, 180, 0, 192, 79, 212, 48, 200>>

Namespaces == {NAMESPACE_DNS, NAMESPACE_OID, NAMESPACE_URL, NAMESPACE_X500}

-----------------------------------------------------------------------------
(* lib.rs: hex formatting of a UUID value.  Text is a sequence of ASCII    *)
(* codes: '0' = 48, 'A' = 65, 'a' = 97, '-' = 45, ':' = 58.                *)

\* One hex digit of `{:02x}`.
LowerDigit(d) == IF d < 10 THEN 48 + d ELSE 87 + d

\* One hex digit of `{:02X}`.
UpperDigit(d) == IF d < 10 THEN 48 + d ELSE 55 + d

\* `{:02x}` of a byte.
Hex02x(b) == <<LowerDigit(b \div 16), LowerDigit(b % 16)>>

\* `{:02X}` of a byte.
Hex02X(b) == <<UpperDigit(b \div 16), UpperDigit(b % 16)>>

Hyphen == <<45>>

\* `{:x}` of a byte: no zero padding.
Hex_x(b) ==
    IF b < 16 THEN <<LowerDigit(b)>>
    ELSE <<LowerDigit(b \div 16), LowerDigit(b % 16)>>

\* LowerHex with `{:x}` for `{:02x}`.
LowerHex_unpadded(u) ==
    Hex_x(At(u, 0)) \o Hex_x(At(u, 1)) \o Hex_x(At(u, 2)) \o Hex_x(At(u, 3))
    \o Hyphen \o Hex_x(At(u, 4)) \o Hex_x(At(u, 5))
    \o Hyphen \o Hex_x(At(u, 6)) \o Hex_x(At(u, 7))
    \o Hyphen \o Hex_x(At(u, 8)) \o Hex_x(At(u, 9))
    \o Hyphen \o Hex_x(At(u, 10)) \o Hex_x(At(u, 11)) \o Hex_x(At(u, 12))
    \o Hex_x(At(u, 13)) \o Hex_x(At(u, 14)) \o Hex_x(At(u, 15))

\* impl fmt::LowerHex for UUID.
LowerHex(u) ==
    Hex02x(At(u, 0)) \o Hex02x(At(u, 1)) \o Hex02x(At(u, 2)) \o Hex02x(At(u, 3))
    \o Hyphen \o Hex02x(At(u, 4)) \o Hex02x(At(u, 5))
    \o Hyphen \o Hex02x(At(u, 6)) \o Hex02x(At(u, 7))
    \o Hyphen \o Hex02x(At(u, 8)) \o Hex02x(At(u, 9))
    \o Hyphen \o Hex02x(At(u, 10)) \o Hex02x(At(u, 11)) \o Hex02x(At(u, 12))
    \o Hex02x(At(u, 13)) \o Hex02x(At(u, 14)) \o Hex02x(At(u, 15))

\* impl fmt::UpperHex for UUID.
UpperHex(u) ==
    Hex02X(At(u, 0)) \o Hex02X(At(u, 1)) \o Hex02X(At(u, 2)) \o Hex02X(At(u, 3))
    \o Hyphen \o Hex02X(At(u, 4)) \o Hex02X(At(u, 5))
    \o Hyphen \o Hex02X(At(u, 6)) \o Hex02X(At(u, 7))
    \o Hyphen \o Hex02X(At(u, 8)) \o Hex02X(At(u, 9))
    \o Hyphen \o Hex02X(At(u, 10)) \o Hex02X(At(u, 11)) \o Hex02X(At(u, 12))
    \o Hex02X(At(u, 13)) \o Hex02X(At(u, 14)) \o Hex02X(At(u, 15))

\* str::to_ascii_uppercase.
to_ascii_uppercase(s) ==
    [i \in 1 .. Len(s) |-> IF s[i] >= 97 /\ s[i] <= 122 THEN s[i] - 32 ELSE s[i]]

-----------------------------------------------------------------------------
(* lib.rs: ClockSeq and Timestamp.                                         *)

\* AtomicU16::fetch_add(n) on a cell: the value returned and the value left.
fetch_add(cell, n) == [old |-> cell, new |-> (cell + n) % 65536]

\* ClockSeq::new(r): a fresh AtomicU16 holding r, fetch_add(1) on it; the
\* atomic is a temporary dropped at the end of the call.
ClockSeqNew(r) == fetch_add(r, 1).old

\* UTC_EPOCH = 0x1B21_DD21_3814_000 as a u64.
UTC_EPOCH == <<0, 64, 129, 19, 210, 29, 178, 1>>

\* 0xffff_ffff_ffff_fff as a u128.
Mask60 == <<255, 255, 255, 255, 255, 255, 255, 15, 0, 0, 0, 0, 0, 0, 0, 0>>

\* std::time::Duration: whole seconds (u64) and sub-second nanoseconds.
Duration(s, n) == [secs |-> s, nanos |-> n]

\* Duration::from_nanos(n) for a u64 n: n / 10^9 seconds, n % 10^9 nanoseconds.
DurationFromNanos(n) ==
    LET d1 == WDivFrom(n, 1000, Len(n), 0)
        d2 == WDivFrom(d1[1], 1000, Len(n), 0)
        d3 == WDivFrom(d2[1], 1000, Len(n), 0)
    IN  Duration(d3[1], d1[2] + 1000 * d2[2] + 1000000 * d3[2])

\* Duration::checked_add: None when the seconds overflow u64.
DurationCheckedAdd(a, b) ==
    LET s     == WAdd(a.secs, b.secs)
        nanos == a.nanos + b.nanos
        s1    == WAdd(s.sum, WFromNat(1, 8))
    IN  IF s.overflow THEN None
        ELSE IF nanos >= 1000000000
             THEN IF s1.overflow THEN None
                  ELSE Some(Duration(s1.sum, nanos - 1000000000))
             ELSE Some(Duration(s.sum, nanos))

\* Duration::as_nanos: secs * 10^9 + nanos as a u128.
DurationAsNanos(d) ==
    WAdd(WMulSmall(WMulSmall(WMulSmall(WCast(d.secs, 16), 1000), 1000), 1000),
         WCast(WFromNat(d.nanos, 4), 16)).sum

Panic == [panic |-> TRUE]
Returned(v) == [panic |-> FALSE, value |-> v]

\* Timestamp::new, given what SystemTime::now().duration_since(UNIX_EPOCH)
\* answered: [ok |-> FALSE] (the clock reads before 1970) or
\* [ok |-> TRUE, dur |-> Duration].  Each unwrap() panics on Err or None.
TimestampNew(now) ==
    IF ~now.ok THEN Panic
    ELSE LET sum == DurationCheckedAdd(now.dur, DurationFromNanos(UTC_EPOCH))
         IN  IF sum = None THEN Panic
             ELSE Returned(WCast(WAnd(DurationAsNanos(sum[1]), Mask60), 8))

-----------------------------------------------------------------------------
(* base/name.rs, base/rand.rs: v3, v5, v4.                                 *)

\* The digest primitives are external; each is a fixed function of the data
\* hashed.  Every input byte is folded, in order, into an accumulator, and
\* byte j of the n-byte digest is drawn from the accumulator, the salt and j.
RECURSIVE DigestFold(_, _, _)
DigestFold(data, i, acc) ==
    IF i > Len(data) THEN acc
    ELSE DigestFold(data, i + 1, (acc * 33 + data[i]) % 65521)

Digest(data, salt, n) ==
    LET h == DigestFold(data, 1, salt)
    IN  [j \in 1 .. n |-> ((h * (2 * j + 1) + 37 * j * j + salt) \div 3) % 256]

\* md5::compute(&data).0: 16 bytes.
md5_compute(data) == Digest(data, 91, 16)

\* Sha1::from(&data).digest().bytes(): 20 bytes.
sha1_digest(data) == Digest(data, 200, 20)

\* The Layout that v3, v4 and v5 build from 16 bytes h and a version.
FromBytes(h, version) ==
    Layout(
        WOr(WOr(WShlBytes(WCast(<<At(h, 0)>>, 4), 3),
                WShlBytes(WCast(<<At(h, 1)>>, 4), 2)),
            WOr(WShlBytes(WCast(<<At(h, 2)>>, 4), 1),
                WCast(<<At(h, 3)>>, 4))),
        BitOr(Shl(At(h, 4), 8, 16), At(h, 5)),
        BitOr(BitAnd(BitOr(Shl(At(h, 6), 8, 16), At(h, 7)), 4095),
              Shl(VersionTag(version), 12, 16)),
        BitOr(BitAnd(At(h, 8), 15), Shl(VariantTag("RFC"), 4, 8)),
        At(h, 9),
        <<At(h, 10), At(h, 11), At(h, 12), At(h, 13), At(h, 14), At(h, 15)>>)

\* v3 hashing the last random draw along with the namespace and the name.
v3_reads_rng(any, ns) ==
    FromBytes(md5_compute(LowerHex(ns) \o any
                          \o (IF rng = None THEN <<>> ELSE rng[1])), "MD5")

\* UUID::v3(any, ns).
v3(any, ns) == FromBytes(md5_compute(LowerHex(ns) \o any), "MD5")

\* UUID::v5(any, nspace).
v5(any, nspace) == FromBytes(sha1_digest(LowerHex(nspace) \o any), "SHA1")

\* v4 with the `& 0xfff` on time_high_and_version left out.
v4_unmasked(r) ==
    LET h == to_be_bytes(r)
    IN  [FromBytes(h, "RAND") EXCEPT
            !.time_high_and_version =
                BitOr(BitOr(Shl(At(h, 6), 8, 16), At(h, 7)),
                      Shl(VersionTag("RAND"), 12, 16))]

\* Uuid::v4 for the draw rand::random::<u128>() = r.
v4(r) == FromBytes(to_be_bytes(r), "RAND")

-----------------------------------------------------------------------------
(* time.rs: v1 (TimeStamp::new) and v2 (Domain::new).                      *)

\* crate::clock_seq_high_and_reserved(s) for the seed r its random source
\* drew: the clock sequence's bits 8..11 under the tag s, and its low byte.
clock_seq_high_and_reserved(s, r) ==
    LET clock_seq == ClockSeqNew(r)
    IN  <<BitOr(BitAnd(Shr(clock_seq, 8), 15), Shl(s, 4, 8)),
          BitAnd(clock_seq, 255)>>

\* Domain::get_uid() / Domain::get_gid(): the OS id as a u8.
get_uid(os) == os.uid % 256
get_gid(os) == os.gid % 256

\* The three time fields every time-based constructor fills from utc.
field_low(utc) == WCast(WAnd(utc, <<255, 255, 255, 255, 0, 0, 0, 0>>), 4)
field_mid(utc) == WToU16(WAnd(WShrBytes(utc, 4), <<255, 255, 0, 0, 0, 0, 0, 0>>))
field_high_and_version(utc, version) ==
    BitOr(WToU16(WAnd(WShrBytes(utc, 6), <<255, 15, 0, 0, 0, 0, 0, 0>>)),
          Shl(VersionTag(version), 12, 16))

\* TimeStamp::new() for the clock value utc, the seed r and the MAC address.
v1(utc, r, mac) ==
    LET clock_seq == clock_seq_high_and_reserved(VariantTag("RFC"), r)
    IN  Layout(field_low(utc), field_mid(utc),
               field_high_and_version(utc, "TIME"),
               clock_seq[1], clock_seq[2], mac)

\* TimeStamp::from(utc): the caller's utc, split into the three time fields.
TimeStampFrom(utc, r, mac) ==
    LET clock_seq == clock_seq_high_and_reserved(VariantTag("RFC"), r)
    IN  Layout(field_low(utc), field_mid(utc),
               field_high_and_version(utc, "TIME"),
               clock_seq[1], clock_seq[2], mac)

\* Domain::new(d): clock_seq_low receives the local id of the domain.
v2(d, utc, r, mac, os) ==
    LET clock_seq == clock_seq_high_and_reserved(VariantTag("RFC"), r)
        domain    == CASE d = "PERSON" -> get_uid(os)
                       [] d = "GROUP"  -> get_gid(os)
                       [] d = "ORG"    -> 0
    IN  Layout(field_low(utc), field_mid(utc),
               field_high_and_version(utc, "DCE"),
               clock_seq[1], domain, mac)

-----------------------------------------------------------------------------
(* lib.rs tests: is_valid, the regex                                       *)
(*   ^(?i)(urn:uuid:)?[0-9a-f]{8}\-[0-9a-f]{4}\-[0-5]{1}[0-9a-f]{3}\-      *)
(*   [0-9a-f]{4}\-[0-9a-f]{12}$                                            *)

\* Membership of a character in a class of the regex, under (?i).
ClassHas(cls, c) ==
    CASE cls = "hex" -> (c >= 48 /\ c <= 57) \/ (c >= 97 /\ c <= 102)
                        \/ (c >= 65 /\ c <= 70)
      [] cls = "0-5" -> c >= 48 /\ c <= 53
      [] cls = "-"   -> c = 45

\* The regex after the optional group: each class with its repetition count.
Body ==
    << <<"hex", 8>>, <<"-", 1>>, <<"hex", 4>>, <<"-", 1>>, <<"0-5", 1>>,
       <<"hex", 3>>, <<"-", 1>>, <<"hex", 4>>, <<"-", 1>>, <<"hex", 12>> >>

\* "urn:uuid:".
UrnPrefix == <<117, 114, 110, 58, 117, 117, 105, 100, 58>>

\* n characters of s from pos on, all of class cls.
MatchRun(s, pos, cls, n) ==
    /\ pos + n - 1 <= Len(s)
    /\ \A i \in pos .. pos + n - 1 : ClassHas(cls, s[i])

\* Items k.. of Body match s from pos on, and `$` holds after them.
RECURSIVE MatchFrom(_, _, _)
MatchFrom(s, pos, k) ==
    IF k > Len(Body) THEN pos = Len(s) + 1
    ELSE /\ MatchRun(s, pos, Body[k][1], Body[k][2])
         /\ MatchFrom(s, pos + Body[k][2], k + 1)

\* The literal urn:uuid: at the start of s, letters in either case.
MatchPrefix(s) ==
    /\ Len(s) >= Len(UrnPrefix)
    /\ \A i \in 1 .. Len(UrnPrefix) :
           s[i] = UrnPrefix[i]
           \/ (UrnPrefix[i] >= 97 /\ s[i] = UrnPrefix[i] - 32)

\* The regex without its closing `$`.
RECURSIVE MatchFromOpenEnd(_, _, _)
MatchFromOpenEnd(s, pos, k) ==
    IF k > Len(Body) THEN TRUE
    ELSE /\ MatchRun(s, pos, Body[k][1], Body[k][2])
         /\ MatchFromOpenEnd(s, pos + Body[k][2], k + 1)

is_valid_open_end(s) ==
    \/ MatchFromOpenEnd(s, 1, 1)
    \/ MatchPrefix(s) /\ MatchFromOpenEnd(s, Len(UrnPrefix) + 1, 1)

\* tests::is_valid.
is_valid(s) ==
    \/ MatchFrom(s, 1, 1)
    \/ MatchPrefix(s) /\ MatchFrom(s, Len(UrnPrefix) + 1, 1)

-----------------------------------------------------------------------------
(* The inputs the environment supplies.                                    *)

\* Bytes with every top nibble, over a few low nibbles.
SampleBytes == {hi * 16 + lo : hi \in 0 .. 15, lo \in {0, 9, 15}}

\* Seconds since the Unix epoch, as u64: 0, 1, 1_700_000_000, 2^32,
\* 2^63 - 1, then the last value the epoch offset can be added to, the
\* first it cannot, and u64::MAX.
SecsSamples ==
    {WFromNat(0, 8), WFromNat(1, 8), WFromNat(1700000000, 8),
     <<0, 0, 0, 0, 1, 0, 0, 0>>,
     <<255, 255, 255, 255, 255, 255, 255, 127>>,
     <<223, 123, 183, 248, 255, 255, 255, 255>>,
     <<224, 123, 183, 248, 255, 255, 255, 255>>,
     <<255, 255, 255, 255, 255, 255, 255, 255>>}

NanosSamples == {0, 1, 99, 100, 101, 500000000, 999999999}

\* What SystemTime::now().duration_since(UNIX_EPOCH) can answer.
Readings ==
    {[ok |-> FALSE]}
    \cup {[ok |-> TRUE, dur |-> Duration(sec, n)] :
              sec \in SecsSamples, n \in NanosSamples}

\* The readings the constructors are run on.
CtorReadings ==
    {[ok |-> FALSE]}
    \cup {[ok |-> TRUE, dur |-> Duration(sec, n)] :
              sec \in SecsSamples, n \in {0, 999999999}}

\* Seeds of the clock sequence (u16).
Seeds == {0, 255, 256, 4095, 4096, 61440, 65535}

\* What mac_address::get_mac_address() can answer, unwrapped twice.
NoMac == <<>>
Macs == {NoMac, <<3, 42, 53, 13, 19, 128>>, <<255, 255, 255, 255, 255, 255>>}

\* The OS user and group ids of the process.
OsIds == {[uid |-> 0, gid |-> 0], [uid |-> 1000, gid |-> 100],
          [uid |-> 501, gid |-> 20]}

\* Names hashed by v3 and v5: "", "a", "any".
Names == {<<>>, <<97>>, <<97, 110, 121>>}

\* Draws of rand::random::<u128>(): big-endian bytes 6, 7 and 8 vary, the
\* other bytes are one filler.
Draw(b6, b7, b8, fill) ==
    to_be_bytes([k \in 1 .. 16 |->
        CASE k = 7 -> b6 [] k = 8 -> b7 [] k = 9 -> b8 [] OTHER -> fill])

Draws ==
    {Draw(b6, b7, b8, fill) :
        b6 \in SampleBytes, b7 \in {0, 255}, b8 \in SampleBytes,
        fill \in {0, 165, 255}}

\* Layouts a caller can write down field by field (every field is pub).
LiteralLayouts ==
    {Layout(tl, tm, nib * 4096 + lo, vnib * 16 + vlo, csl, nd) :
        tl \in {<<0, 0, 0, 0>>, <<120, 86, 52, 18>>, <<255, 255, 255, 255>>},
        tm \in {4660, 65535},
        nib \in 0 .. 15, lo \in {0, 2748},
        vnib \in 0 .. 15, vlo \in {0, 7},
        csl \in {0, 90},
        nd \in {<<0, 42, 53, 13, 19, 128>>, <<1, 2, 3, 4, 5, 6>>}}

-----------------------------------------------------------------------------
(* Specification Spec: the constructors and Layout::as_bytes.              *)

\* The callers of ClockSeq::new, and how many calls each may make.
NumThreads == 2
MaxCalls == 2
Threads == 1 .. NumThreads

OtherVarsCtor ==
    <<threads, rets, log, rng, text, origin, valid, reading, stamp, got>>

Init ==
    /\ layout = NoLayout
    /\ made = [op |-> "none"]
    /\ bytes = None
    /\ threads = [t \in Threads |->
                       [pc |-> "idle", cell |-> None, r |-> 0, calls |-> 0]]
    /\ rets = <<>>
    /\ log = <<>>
    /\ rng = None
    /\ text = <<>>
    /\ origin = [kind |-> "none"]
    /\ valid = FALSE
    /\ reading = [ok |-> FALSE]
    /\ stamp = [state |-> "none"]
    /\ got = NotCalled

\* uuid_v1 path: TimeStamp::new().  TimeStamp::now() or the MAC lookup may
\* panic, and then no Layout is built.
CallV1 ==
    /\ made.op = "none"
    /\ \E now \in CtorReadings, r \in Seeds, mac \in Macs :
        LET utc == TimestampNew(now)
        IN  /\ IF utc.panic \/ mac = NoMac
               THEN /\ layout' = NoLayout
                    /\ made' = [op |-> "v1", panicked |-> TRUE]
               ELSE /\ layout' = v1(utc.value, r, mac)
                    /\ made' = [op |-> "v1", panicked |-> FALSE,
                                utc |-> utc.value, r |-> r, mac |-> mac]
            /\ bytes' = None
            /\ UNCHANGED OtherVarsCtor

\* uuid_v2 path: Domain::new(d).
CallV2 ==
    /\ made.op = "none"
    /\ \E d \in Domain, now \in CtorReadings, r \in Seeds, mac \in Macs,
       os \in OsIds :
        LET utc == TimestampNew(now)
        IN  /\ IF utc.panic \/ mac = NoMac
               THEN /\ layout' = NoLayout
                    /\ made' = [op |-> "v2", panicked |-> TRUE]
               ELSE /\ layout' = v2(d, utc.value, r, mac, os)
                    /\ made' = [op |-> "v2", panicked |-> FALSE, d |-> d,
                                utc |-> utc.value, r |-> r, mac |-> mac,
                                os |-> os]
            /\ bytes' = None
            /\ UNCHANGED OtherVarsCtor

CallV3 ==
    /\ made.op = "none"
    /\ \E any \in Names, ns \in Namespaces :
        /\ layout' = v3(any, ns)
        /\ made' = [op |-> "v3", panicked |-> FALSE, any |-> any, ns |-> ns]
        /\ bytes' = None
        /\ UNCHANGED OtherVarsCtor

CallV4 ==
    /\ made.op = "none"
    /\ \E r \in Draws :
        /\ layout' = v4(r)
        /\ made' = [op |-> "v4", panicked |-> FALSE, r |-> r]
        /\ bytes' = None
        /\ UNCHANGED OtherVarsCtor

CallV5 ==
    /\ made.op = "none"
    /\ \E any \in Names, ns \in Namespaces :
        /\ layout' = v5(any, ns)
        /\ made' = [op |-> "v5", panicked |-> FALSE, any |-> any, ns |-> ns]
        /\ bytes' = None
        /\ UNCHANGED OtherVarsCtor

\* A Layout written as a struct literal.
LayoutLiteral ==
    /\ made.op = "none"
    /\ \E l \in LiteralLayouts :
        /\ layout' = l
        /\ made' = [op |-> "literal", panicked |-> FALSE]
        /\ bytes' = None
        /\ UNCHANGED OtherVarsCtor

\* layout.as_bytes(): takes &self, returns the UUID value.
AsBytes ==
    /\ layout # NoLayout
    /\ bytes' = Some(as_bytes(layout))
    /\ UNCHANGED <<layout, made>>
    /\ UNCHANGED OtherVarsCtor

\* The Layout and the value encoded from it go out of scope.
Drop ==
    /\ made.op # "none"
    /\ layout' = NoLayout
    /\ made' = [op |-> "none"]
    /\ bytes' = None
    /\ UNCHANGED OtherVarsCtor

Next ==
    \/ CallV1 \/ CallV2 \/ CallV3 \/ CallV4 \/ CallV5
    \/ LayoutLiteral \/ AsBytes \/ Drop

Spec == Init /\ [][Next]_vars

-----------------------------------------------------------------------------
(* Properties of the constructors and of as_bytes, checked under Spec.     *)

Built(op) == made.op = op /\ ~made.panicked

\* The tag each constructor is meant to leave in the version nibble.
ExpectedVersion(op) ==
    CASE op = "v1" -> "TIME"
      [] op = "v2" -> "DCE"
      [] op = "v3" -> "MD5"
      [] op = "v4" -> "RAND"
      [] op = "v5" -> "SHA1"

\* C4: every Layout built by v1, v2, v3, v4 or v5, whatever the clock
\* value, clock sequence, node, digest or random draw behind it, decodes to
\* the version tag of its constructor and to the variant RFC.
C4_VersionAndVariant ==
    \A op \in {"v1", "v2", "v3", "v4", "v5"} :
        Built(op) =>
            /\ get_version(layout) = Some(ExpectedVersion(op))
            /\ get_variant(layout) = Some("RFC")

\* A v4 Layout whose draw had all ones where the two tags go.
C4_Witness ==
    /\ Built("v4")
    /\ At(to_be_bytes(made.r), 6) = 255
    /\ At(to_be_bytes(made.r), 8) = 255
    /\ get_version(layout) = Some("RAND")

\* The local id Domain::new looks up for a domain.
LocalId(d, os) ==
    CASE d = "PERSON" -> get_uid(os)
      [] d = "GROUP"  -> get_gid(os)
      [] d = "ORG"    -> 0

\* C9: a v2 Layout holds the numeric value of its domain in clock_seq_low
\* and the local id of that domain in the low bits of time_low.
C9_DomainAndLocalId ==
    Built("v2") =>
        /\ layout.clock_seq_low = DomainTag(made.d)
        /\ layout.time_low[1] = LocalId(made.d, made.os)

\* The value of the bytes s[from..from+n-1] read as one big-endian u16.
BeU16(s, from) == At(s, from) * 256 + At(s, from + 1)

\* The 16 bytes are the six fields of l, big-endian, in declaration order.
EncodesFields(out, l) ==
    /\ Len(out) = 16
    /\ \A k \in 0 .. 3 : At(out, k) = l.time_low[4 - k]
    /\ BeU16(out, 4) = l.time_mid
    /\ BeU16(out, 6) = l.time_high_and_version
    /\ At(out, 8) = l.clock_seq_high_and_reserved
    /\ At(out, 9) = l.clock_seq_low
    /\ \A k \in 0 .. 5 : At(out, 10 + k) = At(l.node, k)

\* C10: as_bytes returns, for every Layout, exactly 16 bytes that are the
\* big-endian serialisation of the six fields in declaration order; it
\* answers for every Layout and leaves the Layout as it was.
C10_AsBytes ==
    [][/\ layout' # NoLayout => Len(as_bytes(layout')) = 16
       /\ bytes' # bytes /\ bytes' # None =>
              /\ EncodesFields(bytes'[1], layout)
              /\ layout' = layout]_vars

\* An encoded Layout whose fields all differ from one another.
C10_Witness ==
    /\ bytes # None
    /\ made.op = "literal"
    /\ layout.time_low = <<120, 86, 52, 18>>
    /\ layout.time_mid = 4660
    /\ layout.time_high_and_version = 10 * 4096 + 2748
    /\ layout.clock_seq_high_and_reserved = 7
    /\ layout.clock_seq_low = 90
    /\ layout.node = <<1, 2, 3, 4, 5, 6>>

-----------------------------------------------------------------------------
(* Specification SpecClock: concurrent callers of ClockSeq::new.  A call   *)
(* is two steps, the construction of its AtomicU16 and the fetch_add on    *)
(* it; the steps of different callers interleave freely.                   *)

\* Arguments the callers pass as r.
ClockSeeds == {0, 1, 65535}

OtherVarsClock ==
    <<layout, made, bytes, log, rng, text, origin, valid, reading, stamp, got>>

\* atomic::AtomicU16::new(r): the call's own atomic.
AtomicNew(t) ==
    /\ threads[t].pc = "idle"
    /\ threads[t].calls < MaxCalls
    /\ \E r \in ClockSeeds :
           threads' = [threads EXCEPT ![t] =
                          [pc |-> "constructed", cell |-> Some(r), r |-> r,
                           calls |-> @.calls]]
    /\ UNCHANGED rets
    /\ UNCHANGED OtherVarsClock

\* .fetch_add(1, AcqRel) on that atomic; the call returns the old value and
\* the atomic is dropped.
FetchAdd(t) ==
    /\ threads[t].pc = "constructed"
    /\ LET fa == fetch_add(threads[t].cell[1], 1)
       IN  /\ rets' = Append(rets, [thread |-> t, r |-> threads[t].r,
                                    value |-> fa.old, left |-> fa.new])
           /\ threads' = [threads EXCEPT ![t] =
                             [pc |-> "idle", cell |-> None, r |-> @.r,
                              calls |-> @.calls + 1]]
    /\ UNCHANGED OtherVarsClock

NextClock == \E t \in Threads : AtomicNew(t) \/ FetchAdd(t)

SpecClock == Init /\ [][NextClock]_vars

\* C1: the values returned by the calls of ClockSeq::new made so far, by
\* any callers in any interleaving, are pairwise distinct.
C1_PairwiseDistinct ==
    \A i, j \in 1 .. Len(rets) :
        i # j => rets[i].value # rets[j].value

\* C2: the counter is seeded once, by the first call, and never again: the
\* k-th call returns (s + k - 1) mod 2^16 for the seed s of the first call.
C2_SeededOnce ==
    \A k \in 1 .. Len(rets) :
        rets[k].value = (rets[1].r + k - 1) % 65536

-----------------------------------------------------------------------------
(* Specification SpecTime: Timestamp::new on a clock reading.              *)

OtherVarsTime ==
    <<layout, made, bytes, threads, rets, log, rng, text, origin, valid, got>>

\* SystemTime::now().duration_since(SystemTime::UNIX_EPOCH).
ReadClock ==
    /\ stamp.state = "none"
    /\ \E now \in Readings : reading' = now
    /\ stamp' = [state |-> "read"]
    /\ UNCHANGED OtherVarsTime

\* The rest of Timestamp::new: the unwraps, checked_add, as_nanos, the mask.
CallTimestampNew ==
    /\ stamp.state = "read"
    /\ stamp' = [state |-> "done", result |-> TimestampNew(reading)]
    /\ UNCHANGED reading
    /\ UNCHANGED OtherVarsTime

\* The caller is done with the value.
ForgetStamp ==
    /\ stamp.state = "done"
    /\ stamp' = [state |-> "none"]
    /\ reading' = [ok |-> FALSE]
    /\ UNCHANGED OtherVarsTime

NextTime == ReadClock \/ CallTimestampNew \/ ForgetStamp

SpecTime == Init /\ [][NextTime]_vars

\* The typed failure a caller would be handed.
ClockOverflow == [panic |-> FALSE, error |-> "ClockOverflow"]

\* The reading is one the epoch offset cannot be added to within a u64 of
\* seconds.
AdditionOverflows(now) ==
    /\ now.ok
    /\ ~WLeq(now.dur.secs, <<223, 123, 183, 248, 255, 255, 255, 255>>)

\* C7: when the epoch offset cannot be added to the system time, the caller
\* of Timestamp::new receives the typed failure ClockOverflow, not a panic.
C7_TypedClockOverflow ==
    stamp.state = "done" /\ AdditionOverflows(reading) =>
        stamp.result = ClockOverflow

\* (n / 100 + UTC_EPOCH) mod 2^60 for n nanoseconds since the Unix epoch.
TicksSinceRfcEpoch(n) ==
    WCast(WAnd(WAdd(WDivSmall(n, 100), WCast(UTC_EPOCH, 16)).sum, Mask60), 8)

\* C8: for a clock reading of n nanoseconds since the Unix epoch the
\* timestamp returned is (n / 100 + UTC_EPOCH) mod 2^60, the count of
\* 100-nanosecond ticks since the RFC4122 epoch.
C8_HundredNanosecondTicks ==
    stamp.state = "done" /\ reading.ok /\ ~AdditionOverflows(reading) =>
        /\ ~stamp.result.panic
        /\ stamp.result.value = TicksSinceRfcEpoch(DurationAsNanos(reading.dur))

-----------------------------------------------------------------------------
(* Specification SpecName: v3 and v5 called again and again, with draws of *)
(* the random source in between.                                           *)

\* How many name-based calls one behaviour makes.
MaxLog == 3

\* The (name, namespace) inputs of the name-based calls: "a" and "any"
\* under DNS, "any" under X500.
LogInputs ==
    {<<<<97>>, NAMESPACE_DNS>>, <<<<97, 110, 121>>, NAMESPACE_DNS>>,
     <<<<97, 110, 121>>, NAMESPACE_X500>>}

\* Two draws of the random source (as 16 big-endian bytes).
LogDraws == {[k \in 1 .. 16 |-> 17 * k], [k \in 1 .. 16 |-> 255 - k]}

OtherVarsName ==
    <<layout, made, bytes, threads, rets, text, origin, valid, reading, stamp,
      got>>

\* UUID::v3(any, ns).as_bytes()
NameV3 ==
    /\ Len(log) < MaxLog
    /\ \E in \in LogInputs :
           log' = Append(log, [ver |-> "v3", any |-> in[1], ns |-> in[2],
                               rng |-> rng,
                               out |-> as_bytes(v3(in[1], in[2]))])
    /\ UNCHANGED rng
    /\ UNCHANGED OtherVarsName

\* UUID::v5(any, ns).as_bytes()
NameV5 ==
    /\ Len(log) < MaxLog
    /\ \E in \in LogInputs :
           log' = Append(log, [ver |-> "v5", any |-> in[1], ns |-> in[2],
                               rng |-> rng,
                               out |-> as_bytes(v5(in[1], in[2]))])
    /\ UNCHANGED rng
    /\ UNCHANGED OtherVarsName

\* Some other call (Uuid::v4) draws from the random source.
DrawRandom ==
    /\ \E r \in LogDraws : rng # Some(r) /\ rng' = Some(r)
    /\ UNCHANGED log
    /\ UNCHANGED OtherVarsName

NextName == NameV3 \/ NameV5 \/ DrawRandom

SpecName == Init /\ [][NextName]_vars

-----------------------------------------------------------------------------
(* Specification SpecFmt: a UUID value is formatted and the text, or a     *)
(* corruption of it, is handed to is_valid.                                *)

\* The 16-byte values formatted: every version nibble over two fillers, and
\* the four namespaces.
FmtUuids ==
    {[k \in 1 .. 16 |-> IF k = 7 THEN hi * 16 + 10 ELSE fill] :
        hi \in 0 .. 15, fill \in {9, 239}}
    \cup Namespaces

\* The text of u under one of the renderings: `{:x}`, `{:X}`, or `{:x}`
\* passed through to_ascii_uppercase.
Render(u, how) ==
    CASE how = "x"       -> LowerHex(u)
      [] how = "X"       -> UpperHex(u)
      [] how = "x-upper" -> to_ascii_uppercase(LowerHex(u))

OtherVarsFmt ==
    <<layout, made, bytes, threads, rets, log, rng, reading, stamp, got>>

\* is_valid(&format!(..)), with or without the urn:uuid: prefix.
Format ==
    /\ origin.kind = "none"
    /\ \E u \in FmtUuids, how \in {"x", "X", "x-upper"},
          urn \in {<<>>, UrnPrefix, to_ascii_uppercase(UrnPrefix)} :
           /\ text' = urn \o Render(u, how)
           /\ origin' = [kind |-> "format", how |-> how, urn |-> urn,
                         uuid |-> u]
    /\ valid' = is_valid(text')
    /\ UNCHANGED OtherVarsFmt

\* Where the first hex group of a formatted text starts.
BodyStart == Len(text) - 35

InsertAt(s, p, c) == SubSeq(s, 1, p - 1) \o <<c>> \o SubSeq(s, p, Len(s))
DeleteAt(s, p) == SubSeq(s, 1, p - 1) \o SubSeq(s, p + 1, Len(s))
ReplaceAt(s, p, c) == [s EXCEPT ![p] = c]
SwapAt(s, p, q) == [s EXCEPT ![p] = s[q], ![q] = s[p]]

\* text' is broken in the way `how` names, and is_valid is asked about it.
Break(how, broken) ==
    /\ text' = broken
    /\ origin' = [kind |-> "broken", how |-> how]
    /\ valid' = is_valid(text')
    /\ UNCHANGED OtherVarsFmt

\* A group gets one hex digit too many.
LongGroup ==
    /\ origin.kind = "format" /\ valid
    /\ \E p \in BodyStart .. Len(text), c \in {48, 102} :
           Break("group length", InsertAt(text, p, c))

\* A group loses a hex digit.
ShortGroup ==
    /\ origin.kind = "format" /\ valid
    /\ \E p \in BodyStart .. Len(text) :
           text[p] # 45 /\ Break("group length", DeleteAt(text, p))

\* A hyphen moves by one place: one group longer, its neighbour shorter.
MovedHyphen ==
    /\ origin.kind = "format" /\ valid
    /\ \E p \in BodyStart .. Len(text) :
           \E q \in {p - 1, p + 1} :
               text[p] = 45 /\ Break("group length", SwapAt(text, p, q))

\* A character that is no hex digit inside a group.
NonHex ==
    /\ origin.kind = "format" /\ valid
    /\ \E p \in BodyStart .. Len(text),
          c \in {103, 71, 122, 32, 58, 47, 64, 96, 10} :
           text[p] # 45 /\ Break("non-hex", ReplaceAt(text, p, c))

\* The first character of the third group outside 0-5.
BadVersion ==
    /\ origin.kind = "format" /\ valid
    /\ \E c \in (54 .. 57) \cup (97 .. 102) \cup (65 .. 70) :
           Break("version", ReplaceAt(text, BodyStart + 14, c))

\* Characters after the last group.
Trailing ==
    /\ origin.kind = "format" /\ valid
    /\ \E c \in {48, 102, 10, 32, 45} :
           Break("trailing", text \o <<c>>)

\* Characters before the prefix, or before the first group without one.
Leading ==
    /\ origin.kind = "format" /\ valid
    /\ \E c \in {48, 102, 10, 32, 117} :
           Break("leading", <<c>> \o text)

\* The text is dropped.
ForgetText ==
    /\ origin.kind # "none"
    /\ text' = <<>>
    /\ origin' = [kind |-> "none"]
    /\ valid' = FALSE
    /\ UNCHANGED OtherVarsFmt

NextFmt ==
    \/ Format \/ LongGroup \/ ShortGroup \/ MovedHyphen \/ NonHex
    \/ BadVersion \/ Trailing \/ Leading \/ ForgetText

SpecFmt == Init /\ [][NextFmt]_vars

\* The top nibble of byte 6 of a UUID value: its version nibble.
VersionNibble(u) == At(u, 6) \div 16

\* C5, as claimed: the text of every 16-byte value, in lowercase or
\* uppercase, with or without the urn:uuid: prefix, passes is_valid.
C5_EveryValueValidates ==
    origin.kind = "format" => valid

\* C5, amended: the text of every 16-byte value whose version nibble is
\* at most 5 passes is_valid, in lowercase or uppercase, with or without
\* the prefix.
C5_VersionedValueValidates ==
    origin.kind = "format" /\ VersionNibble(origin.uuid) <= 5 => valid

\* An uppercase rendering behind the prefix that was accepted.
C5_Witness ==
    /\ origin.kind = "format"
    /\ origin.how = "X"
    /\ origin.urn = UrnPrefix
    /\ VersionNibble(origin.uuid) = 5
    /\ valid

\* C6: a text that breaks the grammar (a group of the wrong length, a
\* character that is no hex digit, a version nibble outside 0-5, characters
\* before the prefix or after the last group) fails is_valid.
C6_BrokenTextFails ==
    origin.kind = "broken" => ~valid

\* A text with a newline after its last group was refused.
C6_Witness ==
    /\ origin.kind = "broken"
    /\ origin.how = "trailing"
    /\ text[Len(text)] = 10
    /\ ~valid

-----------------------------------------------------------------------------
(* Specification SpecRead: the accessors get_version, get_variant and      *)
(* get_time, called on Layouts built by TimeStamp::from, on Layouts whose  *)
(* time fields a caller filled by splitting a timestamp, and on arbitrary  *)
(* struct literals.                                                        *)

\* u64 values passed as utc: 0, 1, 2^32 - 1, 2^32, 2^48 - 1, 2^48,
\* 0x0fff_0000_0000_0000, 2^60 - 1, UTC_EPOCH, 0x0123_4567_89ab_cdef, and
\* three values wider than 60 bits: 2^60, 0xf123_4567_89ab_cdef, u64::MAX.
UtcSamples ==
    {WFromNat(0, 8), WFromNat(1, 8),
     <<255, 255, 255, 255, 0, 0, 0, 0>>,
     <<0, 0, 0, 0, 1, 0, 0, 0>>,
     <<255, 255, 255, 255, 255, 255, 0, 0>>,
     <<0, 0, 0, 0, 0, 0, 1, 0>>,
     <<0, 0, 0, 0, 0, 0, 255, 15>>,
     <<255, 255, 255, 255, 255, 255, 255, 15>>,
     UTC_EPOCH,
     <<239, 205, 171, 137, 103, 69, 35, 1>>,
     <<0, 0, 0, 0, 0, 0, 0, 16>>,
     <<239, 205, 171, 137, 103, 69, 35, 241>>,
     <<255, 255, 255, 255, 255, 255, 255, 255>>}

Versions == {"TIME", "DCE", "MD5", "RAND", "SHA1"}

OtherVarsRead ==
    <<bytes, threads, rets, log, rng, text, origin, valid, reading, stamp>>

\* TimeStamp::from(utc); the MAC lookup may panic.
CallFrom ==
    /\ made.op = "none"
    /\ \E utc \in UtcSamples, r \in Seeds, mac \in Macs :
        IF mac = NoMac
        THEN /\ layout' = NoLayout
             /\ made' = [op |-> "from", panicked |-> TRUE]
        ELSE /\ layout' = TimeStampFrom(utc, r, mac)
             /\ made' = [op |-> "from", panicked |-> FALSE, utc |-> utc,
                         version |-> "TIME"]
    /\ UNCHANGED got
    /\ UNCHANGED OtherVarsRead

\* A struct literal whose three time fields are the split of t under the
\* tag of any version, as the time-based constructors write them.
SplitLiteral ==
    /\ made.op = "none"
    /\ \E t \in UtcSamples, version \in Versions, csh \in {0, 16, 159},
          csl \in {0, 90} :
        /\ layout' = Layout(field_low(t), field_mid(t),
                            field_high_and_version(t, version),
                            csh, csl, <<1, 2, 3, 4, 5, 6>>)
        /\ made' = [op |-> "split", panicked |-> FALSE, utc |-> t,
                    version |-> version]
    /\ UNCHANGED got
    /\ UNCHANGED OtherVarsRead

\* layout.get_version(): takes &self.
GetVersion ==
    /\ layout # NoLayout
    /\ got' = [got EXCEPT !.get_version = Called(get_version(layout))]
    /\ UNCHANGED <<layout, made>>
    /\ UNCHANGED OtherVarsRead

\* layout.get_variant(): takes &self.
GetVariant ==
    /\ layout # NoLayout
    /\ got' = [got EXCEPT !.get_variant = Called(get_variant(layout))]
    /\ UNCHANGED <<layout, made>>
    /\ UNCHANGED OtherVarsRead

\* layout.get_time(): takes &self.
GetTime ==
    /\ layout # NoLayout
    /\ got' = [got EXCEPT !.get_time = Called(get_time(layout))]
    /\ UNCHANGED <<layout, made>>
    /\ UNCHANGED OtherVarsRead

\* The Layout and what was read from it go out of scope.
DropLayout ==
    /\ made.op # "none"
    /\ layout' = NoLayout
    /\ made' = [op |-> "none"]
    /\ got' = NotCalled
    /\ UNCHANGED OtherVarsRead

NextRead ==
    \/ CallFrom \/ SplitLiteral \/ LayoutLiteral
    \/ GetVersion \/ GetVariant \/ GetTime \/ DropLayout

SpecRead == Init /\ [][NextRead]_vars

\* A u64 below 2^60.
Is60Bit(t) == t[8] < 16

\* C11: when the three time fields of a Layout were filled by splitting a
\* 60-bit timestamp t (low 32 bits, middle 16 bits, high 12 bits or-ed with
\* the nibble of any version tag), get_time returns t; and whatever the
\* Layout, bits 60..63 of what get_time returns are clear, so the version
\* nibble never reaches the reconstructed time.
C11_TimeRoundTrip ==
    got.get_time.called =>
        /\ Is60Bit(got.get_time.value)
        /\ (/\ made.op \in {"from", "split"}
            /\ Is60Bit(made.utc)) => got.get_time.value = made.utc

C11_Witness ==
    /\ made.op = "split"
    /\ made.version = "SHA1"
    /\ made.utc = <<255, 255, 255, 255, 255, 255, 255, 15>>
    /\ layout.time_high_and_version = 24575
    /\ got.get_time.called
    /\ got.get_time.value = made.utc

\* The tag tables of RFC 4122 as the crate numbers them, by nibble 0..15.
VersionOfNibble ==
    [n \in 0 .. 15 |->
        IF n \in 1 .. 5
        THEN Some(<<"TIME", "DCE", "MD5", "RAND", "SHA1">>[n])
        ELSE None]

VariantOfNibble ==
    [n \in 0 .. 15 |->
        IF n \in 0 .. 3 THEN Some(<<"NCS", "RFC", "MS", "FUT">>[n + 1])
        ELSE None]

\* C12: get_version is decided by the top nibble of byte 6 of the encoded
\* value alone (1..5 give TIME, DCE, MD5, RAND, SHA1, every other nibble
\* gives None), and get_variant by the top nibble of byte 8 alone (0..3 give
\* NCS, RFC, MS, FUT, every other nibble gives None).
C12_TagDecoding ==
    /\ got.get_version.called =>
           got.get_version.value =
               VersionOfNibble[At(as_bytes(layout), 6) \div 16]
    /\ got.get_variant.called =>
           got.get_variant.value =
               VariantOfNibble[At(as_bytes(layout), 8) \div 16]

C12_Witness ==
    /\ made.op = "literal"
    /\ got.get_version.called
    /\ got.get_variant.called
    /\ At(as_bytes(layout), 6) = 240
    /\ At(as_bytes(layout), 8) = 55
    /\ got.get_version.value = None
    /\ got.get_variant.value = Some("FUT")

=============================================================================
